---- MODULE Spec2Model ----
(***************************************************************************)
(* Plotholes: the report-submission handler (POST /api/report), the shared *)
(* blocked-edge set it feeds, the map component's report loader and its    *)
(* route requests (fetchWithRetry / fetchOSRMRoute / handlePathCalculated),*)
(* and the older map component's mount-time fetchRoute.                    *)
(***************************************************************************)
EXTENDS Integers, Sequences, FiniteSets, TLC

(* ------------------------------ bounds -------------------------------- *)

\* Coordinates (lat and lng alike) are the integers 0..MaxCoord.
MaxCoord == 2

(* --------------------------- form parsing ----------------------------- *)

\* parseFloat's result for a missing or unparseable field.
NaN == -1

Digits == <<"0", "1", "2", "3", "4", "5", "6", "7", "8", "9">>

\* String(n), as ReportDrawer.handleSubmit appends coords to the form.
NumStr(n) == Digits[n + 1]

Coords == 0..MaxCoord

\* What formData.get("lat") can hold: null (rendered "null" by the cast),
\* text that is no number, or a number's text.
RawFields == {"null", "abc"} \cup {NumStr(n) : n \in Coords}

\* parseFloat(formData.get(...) as string)
parseFloat(s) ==
  IF \E n \in Coords : NumStr(n) = s
  THEN CHOOSE n \in Coords : NumStr(n) = s
  ELSE NaN

\* The multipart forms a client can post.
Forms == [file : BOOLEAN, lat : RawFields, lng : RawFields]

\* The forms ReportDrawer.handleSubmit posts: a file and truthy coords
\* (`!coords?.lat || !coords?.lng` rejects 0 as well as a missing value).
DrawerForms ==
  {[file |-> TRUE, lat |-> NumStr(a), lng |-> NumStr(b)] :
     a \in Coords \ {0}, b \in Coords \ {0}}

(* ------------------------ analysis collaborator ----------------------- *)

Levels == <<"low", "medium", "high", "critical">>

\* modelData.severity: undefined or one of the levels.
Severities == {"undefined", "low", "high"}

\* modelData.confidence: undefined (-1) or a percentage.
Confidences == {-1, 87}

\* response.data || response of an OK analysis call
ModelDatas == [pothole : BOOLEAN, severity : Severities, confidence : Confidences]

NoModelData == [pothole |-> FALSE, severity |-> "undefined", confidence |-> -1]

\* modelData.severity ?? "unknown"
SeverityOrUnknown(m) == IF m.severity = "undefined" THEN "unknown" ELSE m.severity

\* modelData.confidence ?? 0.0
ConfidenceOrZero(m) == IF m.confidence = -1 THEN 0 ELSE m.confidence

(* ------------------------------- state -------------------------------- *)

Procs == {1, 2}

VARIABLES
  pc,                \* POST handler: where each submission stands
  lat, lng,          \* POST handler: the parsed coordinates
  analyzeRes,        \* POST handler: how the analysis call ended
  modelData,         \* POST handler: the analysis result
  edgeRes,           \* POST handler: how the add_blocked_edge call ended
  resp,              \* POST handler: the response returned
  reportsTable,      \* Supabase table "reports"
  blocked_edges_set, \* the backend's blocked edges
  reportsLoading,    \* NYCMap: loadReports is running
  loadPc,            \* NYCMap: where loadReports stands
  loadData,          \* NYCMap: the answer fetchReports got
  userReports,       \* NYCMap: the reports drawn on the map
  reports,           \* NYCMap: the reports counted in the header
  issueStatus,       \* backend: each issue's status
  score,             \* backend: each issue's risk score
  recomputed,        \* backend: issues recomputed since their last change
  rpc,               \* route request: where it stands
  routeStart,        \* route request: origin [lat, lng]
  routeEnd,          \* route request: destination [lat, lng]
  retryI,            \* fetchWithRetry: the loop index i
  attempts,          \* fetchWithRetry: fetch calls made
  outcome,           \* fetchOSRMRoute: "ok", or "fallback" from the catch
  newRoute,          \* handlePathCalculated: the awaited result
  route,             \* NYCMap: the displayed route
  frPc,              \* older NYCMap: where the mount-time fetchRoute stands
  frOutcome,         \* older NYCMap: how its fetch ended
  nycRoute,          \* older NYCMap: its route state
  fwPc,              \* fetchWithRetry called alone: where the call stands
  fwRetries,         \* its `retries` argument
  fwDelay,           \* its `delay` argument
  fwI,               \* its loop index i
  fwLog,             \* how each fetch it made ended, in order
  fwTimer,           \* the delay of the timer it last armed
  fwResult,          \* what it returned or threw
  selecting,         \* NYCMap: a report location is being selected
  selectingForPath,  \* NYCMap: "none", "origin" or "destination"
  drawerOpen,        \* NYCMap: the report drawer is open
  pathFinderOpen,    \* NYCMap: the path finder drawer is open
  pathOrigin,        \* NYCMap: the origin marker
  pathDestination,   \* NYCMap: the destination marker
  reportCoords,      \* NYCMap: the report pin
  pathClickCoords,   \* NYCMap: the last path pick, for PathFinderDrawer
  mapView,           \* the point the map last flew to
  pendingTimers,     \* setTimeout(() => setSelectingForPath("none"), 0) armed
  selectingRef,      \* ClickHandler: selectingRef.current
  isPathSelection,   \* ClickHandler: isPathSelection.current
  clickSeq,          \* flips at every map click
  onPickCalled,      \* the last map click called onPick
  onSelectingChangeCalled, \* the last map click called onSelectingChange
  drawerOrigin,      \* PathFinderDrawer: its origin state
  drawerDestination, \* PathFinderDrawer: its destination state
  addrPending,       \* PathFinderDrawer: fetchAddress calls awaited
  calcLoading,       \* PathFinderDrawer: its loading state
  calcArgs,          \* the arguments of the last onPathCalculated call
  heatmapMode,       \* NYCMap: "off", "individual" or "neighborhoods"
  issues,            \* NYCMap: the issues loaded
  neighborhoods,     \* NYCMap: the neighborhood features loaded
  issuesLoading,     \* NYCMap: loadIssues is running
  neighborhoodsLoading, \* NYCMap: loadNeighborhoods is running
  heatLayer,         \* the points of the heat layer on the map, {} without one
  neighborhoodLayer, \* the polygons of the neighborhood layer on the map
  effectMap,         \* the mode effect has run with the map at hand
  crashed            \* an effect threw: the component is unmounted

postVars == <<pc, lat, lng, analyzeRes, modelData, edgeRes, resp, reportsTable,
              blocked_edges_set>>

loadVars == <<reportsLoading, loadPc, loadData, userReports, reports>>

issueVars == <<issueStatus, score, recomputed>>

routeVars == <<rpc, routeStart, routeEnd, retryI, attempts, outcome, newRoute,
               route>>

mountVars == <<frPc, frOutcome, nycRoute>>

retryVars == <<fwPc, fwRetries, fwDelay, fwI, fwLog, fwTimer, fwResult>>

uiVars == <<selecting, selectingForPath, drawerOpen, pathFinderOpen, pathOrigin,
           pathDestination, reportCoords, pathClickCoords, mapView,
           pendingTimers, selectingRef, isPathSelection, clickSeq,
           onPickCalled, onSelectingChangeCalled, drawerOrigin,
           drawerDestination, addrPending, calcLoading, calcArgs>>

heatVars == <<heatmapMode, issues, neighborhoods, issuesLoading,
             neighborhoodsLoading, heatLayer, neighborhoodLayer, effectMap,
             crashed>>

vars == <<postVars, loadVars, issueVars, routeVars, mountVars, retryVars,
          uiVars, heatVars>>

\* Route requests: handlePathCalculated can be entered again while an
\* earlier call still awaits its route.
Reqs == {1, 2}

\* The request of the runs that follow one request alone.
SoloReqs == {1}

\* A risk score not yet computed.
Unscored == -1

NoResp == [status |-> 0, success |-> FALSE, error |-> ""]

\* No coordinates: the null of pathOrigin, reportCoords and the like.
Null == <<0, 0>>

\* fetchWithRetry has neither returned nor thrown.
NoResult == [kind |-> "none", status |-> "", at |-> -1]

Init ==
  /\ pc = [p \in Procs |-> "idle"]
  /\ lat = [p \in Procs |-> NaN]
  /\ lng = [p \in Procs |-> NaN]
  /\ analyzeRes = [p \in Procs |-> "none"]
  /\ modelData = [p \in Procs |-> NoModelData]
  /\ edgeRes = [p \in Procs |-> "none"]
  /\ resp = [p \in Procs |-> NoResp]
  /\ reportsTable = {}
  /\ blocked_edges_set = {}
  /\ reportsLoading = FALSE
  /\ loadPc = "idle"
  /\ loadData = {}
  /\ userReports = {}
  /\ reports = {}
  /\ issueStatus = [p \in Procs |-> "open"]
  /\ score = [p \in Procs |-> Unscored]
  /\ recomputed = {}
  /\ rpc = [r \in Reqs |-> "idle"]
  /\ routeStart = [r \in Reqs |-> <<0, 0>>]
  /\ routeEnd = [r \in Reqs |-> <<0, 0>>]
  /\ retryI = [r \in Reqs |-> 0]
  /\ attempts = [r \in Reqs |-> 0]
  /\ outcome = [r \in Reqs |-> "none"]
  /\ newRoute = [r \in Reqs |-> <<>>]
  /\ route = <<>>
  /\ frPc = "idle"
  /\ frOutcome = "none"
  /\ nycRoute = <<>>
  /\ fwPc = "idle"
  /\ fwRetries = 0
  /\ fwDelay = 0
  /\ fwI = 0
  /\ fwLog = <<>>
  /\ fwTimer = 0
  /\ fwResult = NoResult
  /\ selecting = FALSE
  /\ selectingForPath = "none"
  /\ drawerOpen = FALSE
  /\ pathFinderOpen = FALSE
  /\ pathOrigin = Null
  /\ pathDestination = Null
  /\ reportCoords = Null
  /\ pathClickCoords = Null
  /\ mapView = Null
  /\ pendingTimers = 0
  /\ selectingRef = FALSE
  /\ isPathSelection = FALSE
  /\ clickSeq = 0
  /\ onPickCalled = FALSE
  /\ onSelectingChangeCalled = FALSE
  /\ drawerOrigin = Null
  /\ drawerDestination = Null
  /\ addrPending = {}
  /\ calcLoading = FALSE
  /\ calcArgs = <<Null, Null>>
  /\ heatmapMode = "individual"
  /\ issues = {}
  /\ neighborhoods = {}
  /\ issuesLoading = FALSE
  /\ neighborhoodsLoading = FALSE
  /\ heatLayer = {}
  /\ neighborhoodLayer = {}
  /\ effectMap = FALSE
  /\ crashed = FALSE

(* ------------------- the backend (not in this tree) -------------------- *)

\* The service bounding box of the data model (section 3).
BoxMin == 1
BoxMax == 2

InServiceBox(la, ln) ==
  /\ la # NaN /\ ln # NaN
  /\ BoxMin <= la /\ la <= BoxMax
  /\ BoxMin <= ln /\ ln <= BoxMax

\* POST /api/add_blocked_edge {latitude, longitude}: the registry takes the
\* edge of a coordinate inside the service box and keeps every edge it holds.
\* `by` records which submission's call added the edge.
BackendAddBlockedEdge(edges, la, ln, by) ==
  IF InServiceBox(la, ln)
  THEN edges \cup {[lat |-> la, lng |-> ln, by |-> by]}
  ELSE edges

(* ----------------------- POST /api/report ------------------------------ *)

ErrorResp(code, msg) == [status |-> code, success |-> FALSE, error |-> msg]

SuccessResp == [status |-> 200, success |-> TRUE, error |-> ""]

\* The row the handler inserts into "reports".
ReportRow(p, la, ln, m) ==
  [id |-> p, lat |-> la, lng |-> ln,
   severity |-> SeverityOrUnknown(m), confidence |-> ConfidenceOrZero(m)]

\* insert turned into an upsert keyed by the coordinate (as the storage
\* upload's `upsert: true` is keyed by the path).
InsertRowUpsert(table, row) ==
  {r \in table : ~(r.lat = row.lat /\ r.lng = row.lng)} \cup {row}

\* supabaseServer.from("reports").insert(row): the table gains the row.
InsertRow(table, row) == table \cup {row}

\* Parse the multipart form; without a file answer 400.
Submit(p, F) ==
  /\ pc[p] = "idle"
  /\ \E f \in F :
       /\ lat' = [lat EXCEPT ![p] = parseFloat(f.lat)]
       /\ lng' = [lng EXCEPT ![p] = parseFloat(f.lng)]
       /\ IF ~f.file
          THEN /\ resp' = [resp EXCEPT ![p] = ErrorResp(400, "No file uploaded")]
               /\ pc' = [pc EXCEPT ![p] = "done"]
          ELSE /\ pc' = [pc EXCEPT ![p] = "upload"]
               /\ UNCHANGED resp
  /\ UNCHANGED <<analyzeRes, modelData, edgeRes, reportsTable, blocked_edges_set>>
  /\ UNCHANGED <<loadVars, issueVars, routeVars, mountVars>>
  /\ UNCHANGED <<retryVars, uiVars, heatVars>>

\* Upload to storage; an upload error is thrown and answered 500.
Upload(p) ==
  /\ pc[p] = "upload"
  /\ \E uploaded \in BOOLEAN :
       IF uploaded
       THEN /\ pc' = [pc EXCEPT ![p] = "analyze"]
            /\ UNCHANGED resp
       ELSE /\ pc' = [pc EXCEPT ![p] = "done"]
            /\ resp' = [resp EXCEPT ![p] =
                 ErrorResp(500, "Error: Failed to upload to Supabase Storage")]
  /\ UNCHANGED <<lat, lng, analyzeRes, modelData, edgeRes, reportsTable, blocked_edges_set>>
  /\ UNCHANGED <<loadVars, issueVars, routeVars, mountVars>>
  /\ UNCHANGED <<retryVars, uiVars, heatVars>>

\* How the call to the analysis collaborator can end: the fetch rejects (the
\* collaborator is absent), it answers non-OK, or it answers OK.
AnalyzeOutcomes == {"rejected", "not_ok", "ok"}

\* Where the handler goes after an OK analysis.
AfterAnalysis(m) == IF m.pothole THEN "hazard" ELSE "insert"

\* Call the analysis collaborator; a rejected fetch or a non-OK answer is
\* thrown to the outer catch and answered 500.
Analyze(p) ==
  /\ pc[p] = "analyze"
  /\ \E out \in AnalyzeOutcomes, m \in ModelDatas :
     /\ analyzeRes' = [analyzeRes EXCEPT ![p] = out]
     /\ IF out = "ok"
       THEN /\ modelData' = [modelData EXCEPT ![p] = m]
            /\ pc' = [pc EXCEPT ![p] = AfterAnalysis(m)]
            /\ UNCHANGED resp
       ELSE /\ pc' = [pc EXCEPT ![p] = "done"]
            /\ resp' = [resp EXCEPT ![p] =
                 ErrorResp(500, IF out = "not_ok"
                                THEN "Error: Python model failed"
                                ELSE "TypeError: fetch failed")]
            /\ UNCHANGED modelData
  /\ UNCHANGED <<lat, lng, edgeRes, reportsTable, blocked_edges_set>>
  /\ UNCHANGED <<loadVars, issueVars, routeVars, mountVars>>
  /\ UNCHANGED <<retryVars, uiVars, heatVars>>

\* if (modelData.pothole): post the coordinate to /api/add_blocked_edge; a
\* rejected fetch is caught and logged, and the handler goes on.
AddBlockedEdge(p) ==
  /\ pc[p] = "hazard"
  /\ \E delivered \in BOOLEAN :
       /\ edgeRes' = [edgeRes EXCEPT ![p] = IF delivered THEN "delivered" ELSE "rejected"]
       /\ blocked_edges_set' =
            IF delivered
            THEN BackendAddBlockedEdge(blocked_edges_set, lat[p], lng[p], p)
            ELSE blocked_edges_set
  /\ pc' = [pc EXCEPT ![p] = "insert"]
  /\ UNCHANGED <<lat, lng, analyzeRes, modelData, resp, reportsTable>>
  /\ UNCHANGED <<loadVars, issueVars, routeVars, mountVars>>
  /\ UNCHANGED <<retryVars, uiVars, heatVars>>

\* An insert whose error is not looked at: the handler answers success
\* whether or not the record was stored.
InsertUnchecked(p) ==
  /\ pc[p] = "insert"
  /\ \E inserted \in BOOLEAN :
       IF inserted
       THEN reportsTable' =
              InsertRow(reportsTable, ReportRow(p, lat[p], lng[p], modelData[p]))
       ELSE UNCHANGED reportsTable
  /\ resp' = [resp EXCEPT ![p] = SuccessResp]
  /\ pc' = [pc EXCEPT ![p] = "done"]
  /\ UNCHANGED <<lat, lng, analyzeRes, modelData, edgeRes, blocked_edges_set>>
  /\ UNCHANGED <<loadVars, issueVars, routeVars, mountVars>>
  /\ UNCHANGED <<retryVars, uiVars, heatVars>>

\* Insert the record; an insert error is thrown and answered 500, otherwise
\* the handler answers success.
Insert(p) ==
  /\ pc[p] = "insert"
  /\ \E inserted \in BOOLEAN :
       IF inserted
       THEN /\ reportsTable' =
                 InsertRow(reportsTable, ReportRow(p, lat[p], lng[p], modelData[p]))
            /\ resp' = [resp EXCEPT ![p] = SuccessResp]
       ELSE /\ resp' = [resp EXCEPT ![p] =
                 ErrorResp(500, "Error: Failed to insert report")]
            /\ UNCHANGED reportsTable
  /\ pc' = [pc EXCEPT ![p] = "done"]
  /\ UNCHANGED <<lat, lng, analyzeRes, modelData, edgeRes, blocked_edges_set>>
  /\ UNCHANGED <<loadVars, issueVars, routeVars, mountVars>>
  /\ UNCHANGED <<retryVars, uiVars, heatVars>>

Post(p, F) ==
  \/ Submit(p, F)
  \/ Upload(p)
  \/ Analyze(p)
  \/ AddBlockedEdge(p)
  \/ Insert(p)

(* ------------------- NYCMap: heatmap layers, effects ------------------- *)

\* export type HeatmapMode = 'off' | 'individual' | 'neighborhoods'
HeatmapModes == {"off", "individual", "neighborhoods"}

\* JavaScript's truthiness of a number: 0, NaN and a missing value are not.
Truthy(n) == n # 0 /\ n # NaN

\* The [latitude, longitude] points createIssuesHeatmap passes to heatLayer:
\* issues.filter(...) and userReports.filter(...), both mapped.
HeatPoints(is, us) ==
  {<<i.latitude, i.longitude>> :
     i \in {x \in is : Truthy(x.latitude) /\ Truthy(x.longitude)}}
  \cup
  {<<r.latitude, r.longitude>> :
     r \in {x \in us : Truthy(x.latitude) /\ Truthy(x.longitude)}}

\* createIssuesHeatmap(): nothing without data; else the old layer leaves
\* the map and a layer of the filtered points, if any, is added.
createIssuesHeatmap(cur, is, us) ==
  IF is = {} /\ us = {} THEN cur ELSE HeatPoints(is, us)

\* feature.geometry.coordinates[0].map(...) throws a TypeError.
Malformed(ns) == \E f \in ns : ~f.geometryOk

\* createNeighborhoodsLayer() when nothing throws: nothing without data;
\* else the old layer leaves the map and a group with one polygon a feature
\* is added.
createNeighborhoodsLayer(cur, ns) ==
  IF ns = {} THEN cur ELSE {f.name : f \in ns}

\* The mode effect runs when one of [heatmapMode, mapRef.current] changed.
ModeRuns(mode2) == mode2 # heatmapMode \/ ~effectMap

\* The branches of the mode effect's switch.
ModeCreatesHeat(mode2, is, us) == mode2 = "individual" /\ is # {} /\ us # {}

ModeLoadsIssues(mode2, is) == mode2 = "individual" /\ is = {}

ModeLoadsReports(mode2, us) == mode2 = "individual" /\ us = {}

ModeLoadsNeighborhoods(mode2, ns) == mode2 = "neighborhoods" /\ ns = {}

ModeCreatesNeighborhoods(mode2, ns) == mode2 = "neighborhoods" /\ ns # {}

\* An effect on [issues, userReports] that does not look at the mode.
IssuesEffectAnyMode(mode2, is, us) == is # {} \/ us # {}

\* The effect on [issues, userReports] calls createIssuesHeatmap.
IssuesEffectApplies(mode2, is, us) ==
  mode2 = "individual" /\ (is # {} \/ us # {})

\* The effect on [neighborhoods] calls createNeighborhoodsLayer.
NeighborhoodsEffectApplies(mode2, ns) == mode2 = "neighborhoods" /\ ns # {}

\* The render after a state change, with its effects in their order: the
\* mode effect (both layers leave the map, then a load or a layer), then the
\* effects on the data just set. loadIssues and loadNeighborhoods return at
\* once while their load is running. A throw in an effect unmounts the
\* component, and the map with it.
Render(mode2, is, us, ns, heatData, nbData, il, nl) ==
  LET run == ModeRuns(mode2)
      h1 == IF run THEN {} ELSE heatLayer
      n1 == IF run THEN {} ELSE neighborhoodLayer
      h2 == IF run /\ ModeCreatesHeat(mode2, is, us)
            THEN createIssuesHeatmap(h1, is, us) ELSE h1
      h3 == IF heatData /\ IssuesEffectApplies(mode2, is, us)
            THEN createIssuesHeatmap(h2, is, us) ELSE h2
      nbCalled == \/ run /\ ModeCreatesNeighborhoods(mode2, ns)
                  \/ nbData /\ NeighborhoodsEffectApplies(mode2, ns)
      throws == nbCalled /\ Malformed(ns)
  IN /\ crashed' = throws
     /\ heatLayer' = IF throws THEN {} ELSE h3
     /\ neighborhoodLayer' =
          IF throws THEN {}
          ELSE IF nbCalled THEN createNeighborhoodsLayer(n1, ns) ELSE n1
     /\ effectMap' = TRUE
     /\ issuesLoading' = (il \/ (run /\ ModeLoadsIssues(mode2, is)))
     /\ neighborhoodsLoading' = (nl \/ (run /\ ModeLoadsNeighborhoods(mode2, ns)))

\* The mode effect of this render calls loadReports().
CallsLoadReports(mode2, us) == ModeRuns(mode2) /\ ModeLoadsReports(mode2, us)

(* ------------------------ NYCMap: loadReports -------------------------- *)

\* GET /api/reports: the stored reports, in the shape of api.ts's Report.
BackendReports(table) ==
  {[id |-> r.id, latitude |-> r.lat, longitude |-> r.lng,
    severity_text |-> r.severity, confidence |-> r.confidence] : r \in table}

\* loadReports(): returns at once while a load is running, else marks the
\* load as running and calls fetchReports.
LoadReportsCall ==
  /\ loadPc = "idle"
  /\ ~reportsLoading
  /\ reportsLoading' = TRUE
  /\ loadPc' = "fetching"
  /\ UNCHANGED <<loadData, userReports, reports>>
  /\ UNCHANGED <<postVars, issueVars, routeVars, mountVars>>
  /\ UNCHANGED <<retryVars, uiVars, heatVars>>

\* The backend serves the request (or the fetch fails / answers non-OK).
FetchReportsServed ==
  /\ loadPc = "fetching"
  /\ \E ok \in BOOLEAN :
       IF ok
       THEN /\ loadData' = BackendReports(reportsTable)
            /\ loadPc' = "responded"
       ELSE /\ loadPc' = "failed"
            /\ UNCHANGED loadData
  /\ UNCHANGED <<reportsLoading, userReports, reports>>
  /\ UNCHANGED <<postVars, issueVars, routeVars, mountVars>>
  /\ UNCHANGED <<retryVars, uiVars, heatVars>>

\* The awaited fetchReports settles: set both report states, or log the
\* error; finally clear the running flag.
LoadReportsSettle ==
  /\ loadPc \in {"responded", "failed"}
  /\ IF loadPc = "responded"
     THEN /\ userReports' = loadData
          /\ reports' = loadData
     ELSE UNCHANGED <<userReports, reports>>
  /\ IF crashed
     THEN /\ reportsLoading' = FALSE
          /\ loadPc' = "idle"
          /\ UNCHANGED heatVars
     ELSE /\ Render(heatmapMode, issues, userReports', neighborhoods,
                    loadPc = "responded", FALSE, issuesLoading,
                    neighborhoodsLoading)
          /\ reportsLoading' = CallsLoadReports(heatmapMode, userReports')
          /\ loadPc' = IF CallsLoadReports(heatmapMode, userReports')
                       THEN "fetching" ELSE "idle"
          /\ UNCHANGED <<heatmapMode, issues, neighborhoods>>
  /\ UNCHANGED loadData
  /\ UNCHANGED <<postVars, issueVars, routeVars, mountVars>>
  /\ UNCHANGED <<retryVars, uiVars>>

LoadReports ==
  \/ LoadReportsCall
  \/ FetchReportsServed
  \/ LoadReportsSettle

(* ------------- the backend: closing and recomputing an issue ----------- *)

\* The score given to a report without a confidence (section 4.1's fixed
\* minimum fallback).
FallbackScore == 10

\* score(issue): zero for a closed issue, else from the confidence.
RiskScore(row, status) ==
  IF status = "closed" THEN 0
  ELSE IF row.confidence = 0 THEN FallbackScore ELSE row.confidence

\* The scores at or above which an issue keeps a hazard.
BlockingScore == 55

\* A removal that removes nothing.
RemoveEdgesAtNoop(edges, la, ln) == edges

\* The registry without the edges at a coordinate.
RemoveEdgesAt(edges, la, ln) ==
  {e \in edges : ~(e.lat = la /\ e.lng = ln)}

\* An issue is closed.
CloseIssue(id) ==
  /\ \E row \in reportsTable : row.id = id
  /\ issueStatus[id] = "open"
  /\ issueStatus' = [issueStatus EXCEPT ![id] = "closed"]
  /\ recomputed' = recomputed \ {id}
  /\ UNCHANGED score
  /\ UNCHANGED <<postVars, loadVars, routeVars, mountVars>>
  /\ UNCHANGED <<retryVars, uiVars, heatVars>>

\* recompute_issue(id): rescore the issue; below the blocking score its
\* hazard leaves the registry.
RecomputeIssue(id) ==
  /\ id \notin recomputed
  /\ \E row \in reportsTable :
       /\ row.id = id
       /\ LET sc == RiskScore(row, issueStatus[id]) IN
            /\ score' = [score EXCEPT ![id] = sc]
            /\ blocked_edges_set' =
                 IF sc < BlockingScore
                 THEN RemoveEdgesAt(blocked_edges_set, row.lat, row.lng)
                 ELSE blocked_edges_set
  /\ recomputed' = recomputed \cup {id}
  /\ UNCHANGED issueStatus
  /\ UNCHANGED <<pc, lat, lng, analyzeRes, modelData, edgeRes, resp, reportsTable>>
  /\ UNCHANGED <<loadVars, routeVars, mountVars>>
  /\ UNCHANGED <<retryVars, uiVars, heatVars>>

Lifecycle(id) ==
  \/ CloseIssue(id)
  \/ RecomputeIssue(id)

(* ----------------- NYCMap: heatmap modes and loads --------------------- *)

\* The issues fetchIssues can answer with: one lacks its latitude.
IssueRecords ==
  {[latitude |-> NaN, longitude |-> 1], [latitude |-> 1, longitude |-> 1],
   [latitude |-> 1, longitude |-> 2]}

\* The features fetchNeighborhoodBoundaries can answer with: one has a
\* geometry without coordinates[0].
Features ==
  {[name |-> "A", geometryOk |-> TRUE], [name |-> "B", geometryOk |-> TRUE],
   [name |-> "C", geometryOk |-> FALSE]}

\* A render while the mode effect has not yet seen the map (the nav menu
\* opens, say): no heatmap state changes, the mode effect runs.
NavRender ==
  /\ ~crashed
  /\ ~effectMap
  /\ Render(heatmapMode, issues, userReports, neighborhoods, FALSE, FALSE,
            issuesLoading, neighborhoodsLoading)
  /\ reportsLoading' = (reportsLoading \/ CallsLoadReports(heatmapMode, userReports))
  /\ loadPc' = IF ~reportsLoading /\ CallsLoadReports(heatmapMode, userReports)
               THEN "fetching" ELSE loadPc
  /\ UNCHANGED <<heatmapMode, issues, neighborhoods>>
  /\ UNCHANGED <<loadData, userReports, reports>>
  /\ UNCHANGED <<postVars, issueVars, routeVars, mountVars, retryVars, uiVars>>

\* A heatmap button: setHeatmapMode to another mode, and the render.
setHeatmapMode ==
  /\ ~crashed
  /\ \E m \in HeatmapModes \ {heatmapMode} :
       /\ heatmapMode' = m
       /\ Render(m, issues, userReports, neighborhoods, FALSE, FALSE,
                 issuesLoading, neighborhoodsLoading)
       /\ reportsLoading' = (reportsLoading \/ CallsLoadReports(m, userReports))
       /\ loadPc' = IF ~reportsLoading /\ CallsLoadReports(m, userReports)
                    THEN "fetching" ELSE loadPc
  /\ UNCHANGED <<issues, neighborhoods>>
  /\ UNCHANGED <<loadData, userReports, reports>>
  /\ UNCHANGED <<postVars, issueVars, routeVars, mountVars, retryVars, uiVars>>

\* The awaited fetchIssues settles: setIssues(data.issues), or the error is
\* logged; finally setIssuesLoading(false).
loadIssuesSettle ==
  /\ ~crashed
  /\ issuesLoading
  /\ \E ok \in BOOLEAN, batch \in SUBSET IssueRecords :
       /\ issues' = IF ok THEN batch ELSE issues
       /\ Render(heatmapMode, issues', userReports, neighborhoods, ok, FALSE,
                 FALSE, neighborhoodsLoading)
       /\ reportsLoading' = (reportsLoading \/ CallsLoadReports(heatmapMode, userReports))
       /\ loadPc' = IF ~reportsLoading /\ CallsLoadReports(heatmapMode, userReports)
                    THEN "fetching" ELSE loadPc
  /\ UNCHANGED <<heatmapMode, neighborhoods>>
  /\ UNCHANGED <<loadData, userReports, reports>>
  /\ UNCHANGED <<postVars, issueVars, routeVars, mountVars, retryVars, uiVars>>

\* The awaited fetchNeighborhoodBoundaries settles:
\* setNeighborhoods(data.features), or the error is logged; finally
\* setNeighborhoodsLoading(false).
loadNeighborhoodsSettle ==
  /\ ~crashed
  /\ neighborhoodsLoading
  /\ \E ok \in BOOLEAN, batch \in SUBSET Features :
       /\ neighborhoods' = IF ok THEN batch ELSE neighborhoods
       /\ Render(heatmapMode, issues, userReports, neighborhoods', FALSE, ok,
                 issuesLoading, FALSE)
       /\ reportsLoading' = (reportsLoading \/ CallsLoadReports(heatmapMode, userReports))
       /\ loadPc' = IF ~reportsLoading /\ CallsLoadReports(heatmapMode, userReports)
                    THEN "fetching" ELSE loadPc
  /\ UNCHANGED <<heatmapMode, issues>>
  /\ UNCHANGED <<loadData, userReports, reports>>
  /\ UNCHANGED <<postVars, issueVars, routeVars, mountVars, retryVars, uiVars>>

Heatmap ==
  \/ NavRender
  \/ setHeatmapMode
  \/ loadIssuesSettle
  \/ loadNeighborhoodsSettle

(* ----------------- NYCMap: route requests over OSRM -------------------- *)

\* The points a route can start at, end at or pass, as [lat, lng].
RoutePoints == {<<a, b>> : a \in 1..MaxCoord, b \in 1..MaxCoord}

\* [lat, lng] <-> OSRM's [lng, lat]
Swap(pt) == <<pt[2], pt[1]>>

\* The coordinates taken as they come, in OSRM's [lng, lat] order.
MapNoSwap(cs) == cs

\* coordinates.map(coord => [coord[1], coord[0]])
MapSwap(cs) == [k \in 1..Len(cs) |-> Swap(cs[k])]

\* The request URL: {startLng},{startLat};{endLng},{endLat}
OsrmUrl(s, e) == [from |-> Swap(s), to |-> Swap(e)]

\* The paths the road network offers between two points: the direct one and
\* one through each other point.
Paths(a, b) ==
  IF a = b
  THEN {<<a, b>>}
  ELSE {<<a, b>>} \cup {<<a, m, b>> : m \in RoutePoints \ {a, b}}

\* The JSON bodies of an OK answer: a route between the URL's points, in
\* OSRM's order, or a body without routes[0].geometry.coordinates.
OsrmBodies(url) ==
  {[valid |-> TRUE, coordinates |-> path] : path \in Paths(url.from, url.to)}
    \cup {[valid |-> FALSE, coordinates |-> <<>>]}

\* fetchWithRetry's default `retries`.
DefaultRetries == 3

\* How one fetch can end: an OK response, a non-OK one, or a rejection.
FetchOutcomes == {"ok", "not_ok", "rejected"}

\* A catch that takes the attempt after the last for the last one.
IsLastAttemptLate(i, retries) == i = retries

\* catch: `if (i === retries - 1) throw error`
IsLastAttempt(i, retries) == i = retries - 1

\* The catch of fetchOSRMRoute: `return [start, end]`
FallbackRoute(s, e) == <<s, e>>

\* PathFinderDrawer's Calculate: handlePathCalculated(origin, destination)
\* enters fetchOSRMRoute and fetchWithRetry's loop at i = 0.
RequestRouteBetween(r, points) ==
  /\ rpc[r] = "idle"
  /\ \E s \in points, e \in points :
       /\ routeStart' = [routeStart EXCEPT ![r] = s]
       /\ routeEnd' = [routeEnd EXCEPT ![r] = e]
  /\ retryI' = [retryI EXCEPT ![r] = 0]
  /\ rpc' = [rpc EXCEPT ![r] = "fetch"]
  /\ UNCHANGED <<attempts, outcome, newRoute, route>>
  /\ UNCHANGED <<postVars, loadVars, issueVars, mountVars>>
  /\ UNCHANGED <<retryVars, uiVars, heatVars>>

\* One `await fetch(url, options)` of the loop settles. An OK response is
\* returned to fetchOSRMRoute, which maps its coordinates or throws on a
\* malformed body; a failed fetch is thrown on the last attempt, else the
\* loop waits. Whatever is thrown lands in fetchOSRMRoute's catch.
FetchAttempt(r) ==
  /\ rpc[r] = "fetch"
  /\ attempts' = [attempts EXCEPT ![r] = @ + 1]
  /\ \E out \in FetchOutcomes, body \in OsrmBodies(OsrmUrl(routeStart[r], routeEnd[r])) :
       IF out = "ok"
       THEN /\ rpc' = [rpc EXCEPT ![r] = "resolved"]
            /\ outcome' = [outcome EXCEPT ![r] = IF body.valid THEN "ok" ELSE "fallback"]
            /\ newRoute' = [newRoute EXCEPT ![r] =
                 IF body.valid
                 THEN MapSwap(body.coordinates)
                 ELSE FallbackRoute(routeStart[r], routeEnd[r])]
       ELSE IF IsLastAttempt(retryI[r], DefaultRetries)
       THEN /\ rpc' = [rpc EXCEPT ![r] = "resolved"]
            /\ outcome' = [outcome EXCEPT ![r] = "fallback"]
            /\ newRoute' = [newRoute EXCEPT ![r] =
                 FallbackRoute(routeStart[r], routeEnd[r])]
       ELSE /\ rpc' = [rpc EXCEPT ![r] = "wait"]
            /\ UNCHANGED <<outcome, newRoute>>
  /\ UNCHANGED <<routeStart, routeEnd, retryI, route>>
  /\ UNCHANGED <<postVars, loadVars, issueVars, mountVars>>
  /\ UNCHANGED <<retryVars, uiVars, heatVars>>

\* The retry loop without its i++: every failure is followed by another
\* attempt (cut off one attempt past the budget to keep the run finite).
RetryTimerNoIncrement(r) ==
  /\ rpc[r] = "wait"
  /\ attempts[r] <= DefaultRetries
  /\ rpc' = [rpc EXCEPT ![r] = "fetch"]
  /\ UNCHANGED <<routeStart, routeEnd, retryI, attempts, outcome, newRoute, route>>
  /\ UNCHANGED <<postVars, loadVars, issueVars, mountVars>>
  /\ UNCHANGED <<retryVars, uiVars, heatVars>>

\* The delay timer fires: i++, and the loop goes on while i < retries, else
\* 'Max retries reached' is thrown to the catch.
RetryTimer(r) ==
  /\ rpc[r] = "wait"
  /\ retryI' = [retryI EXCEPT ![r] = @ + 1]
  /\ IF retryI[r] + 1 < DefaultRetries
     THEN /\ rpc' = [rpc EXCEPT ![r] = "fetch"]
          /\ UNCHANGED <<outcome, newRoute>>
     ELSE /\ rpc' = [rpc EXCEPT ![r] = "resolved"]
          /\ outcome' = [outcome EXCEPT ![r] = "fallback"]
          /\ newRoute' = [newRoute EXCEPT ![r] =
               FallbackRoute(routeStart[r], routeEnd[r])]
  /\ UNCHANGED <<routeStart, routeEnd, attempts, route>>
  /\ UNCHANGED <<postVars, loadVars, issueVars, mountVars>>
  /\ UNCHANGED <<retryVars, uiVars, heatVars>>

\* handlePathCalculated: setRoute(newRoute)
SetRoute(r) ==
  /\ rpc[r] = "resolved"
  /\ route' = newRoute[r]
  /\ rpc' = [rpc EXCEPT ![r] = "done"]
  /\ UNCHANGED <<routeStart, routeEnd, retryI, attempts, outcome, newRoute>>
  /\ UNCHANGED <<postVars, loadVars, issueVars, mountVars>>
  /\ UNCHANGED <<retryVars, uiVars, heatVars>>

\* A request between any two points.
RequestRoute(r) == RequestRouteBetween(r, RoutePoints)

RouteRequest(r) ==
  \/ RequestRoute(r)
  \/ FetchAttempt(r)
  \/ RetryTimer(r)
  \/ SetRoute(r)

(* --------------- older NYCMap: fetchRoute on mount --------------------- *)

\* The fixed example origin and destination.
origin == <<1, 1>>
destination == <<MaxCoord, MaxCoord>>

\* POST /api/route {origin, destination}: data.route of an OK answer.
BackendRoutes(a, b) == Paths(a, b)

\* useEffect(() => { fetchRoute() }, [])
FetchRouteMount ==
  /\ frPc = "idle"
  /\ frPc' = "fetching"
  /\ UNCHANGED <<frOutcome, nycRoute>>
  /\ UNCHANGED <<postVars, loadVars, issueVars, routeVars>>
  /\ UNCHANGED <<retryVars, uiVars, heatVars>>

\* The fetch settles: setRoute(data.route) on an OK answer; a rejection or
\* a non-OK answer is thrown to the catch, which logs it.
FetchRouteSettle ==
  /\ frPc = "fetching"
  /\ \E out \in FetchOutcomes, path \in BackendRoutes(origin, destination) :
       IF out = "ok"
       THEN /\ nycRoute' = path
            /\ frOutcome' = "ok"
       ELSE /\ frOutcome' = "failed"
            /\ UNCHANGED nycRoute
  /\ frPc' = "done"
  /\ UNCHANGED <<postVars, loadVars, issueVars, routeVars>>
  /\ UNCHANGED <<retryVars, uiVars, heatVars>>

FetchRoute ==
  \/ FetchRouteMount
  \/ FetchRouteSettle

(* ------------------- fetchWithRetry with its arguments ----------------- *)

\* The largest `retries` a call is made with.
MaxRetries == 3

\* The `retries` arguments: none at all, negative, and 1..MaxRetries.
RetryArgs == -1..MaxRetries

\* fetchWithRetry's default `delay`, in ms.
DefaultDelay == 1000

\* The `delay` arguments.
Delays == {0, DefaultDelay}

\* How one fetch of the call can end: a response with its status (OK for
\* 200), or a rejection.
FwOutcomes == {"200", "404", "500", "rejected"}

\* response.ok
Ok(out) == out = "200"

\* new Error(`HTTP error! status: ${response.status}`) of a non-OK response,
\* or the error a rejected fetch throws, each of the attempt it came from.
AttemptError(out, i) ==
  [kind |-> IF out = "rejected" THEN "fetch failed" ELSE "HTTP error",
   status |-> out, at |-> i]

\* The response of attempt i.
OkResponse(i) == [kind |-> "response", status |-> "200", at |-> i]

\* new Error('Max retries reached')
MaxRetriesReached == [kind |-> "Max retries reached", status |-> "", at |-> -1]

\* fetchWithRetry(url, options, retries, delay): the loop is entered at
\* i = 0 when 0 < retries, else the statement after the loop throws.
FwCall ==
  /\ fwPc = "idle"
  /\ \E retries \in RetryArgs, delay \in Delays :
       /\ fwRetries' = retries
       /\ fwDelay' = delay
       /\ IF 0 < retries
          THEN /\ fwPc' = "fetch"
               /\ UNCHANGED fwResult
          ELSE /\ fwPc' = "thrown"
               /\ fwResult' = MaxRetriesReached
  /\ UNCHANGED <<fwI, fwLog, fwTimer>>
  /\ UNCHANGED <<postVars, loadVars, issueVars, routeVars, mountVars>>
  /\ UNCHANGED <<uiVars, heatVars>>

\* `await fetch(url, options)` settles: an OK response is returned; a non-OK
\* one or a rejection is caught, thrown on when i === retries - 1, else the
\* loop waits delay * (i + 1).
FwFetch ==
  /\ fwPc = "fetch"
  /\ \E out \in FwOutcomes :
       /\ fwLog' = Append(fwLog, out)
       /\ IF Ok(out)
          THEN /\ fwPc' = "returned"
               /\ fwResult' = OkResponse(fwI)
               /\ UNCHANGED fwTimer
          ELSE IF IsLastAttempt(fwI, fwRetries)
          THEN /\ fwPc' = "thrown"
               /\ fwResult' = AttemptError(out, fwI)
               /\ UNCHANGED fwTimer
          ELSE /\ fwPc' = "wait"
               /\ fwTimer' = fwDelay * (fwI + 1)
               /\ UNCHANGED fwResult
  /\ UNCHANGED <<fwRetries, fwDelay, fwI>>
  /\ UNCHANGED <<postVars, loadVars, issueVars, routeVars, mountVars>>
  /\ UNCHANGED <<uiVars, heatVars>>

\* The delay timer fires: i++, and the loop goes on while i < retries, else
\* the statement after the loop throws.
FwTimer ==
  /\ fwPc = "wait"
  /\ fwI' = fwI + 1
  /\ IF fwI + 1 < fwRetries
     THEN /\ fwPc' = "fetch"
          /\ UNCHANGED fwResult
     ELSE /\ fwPc' = "thrown"
          /\ fwResult' = MaxRetriesReached
  /\ UNCHANGED <<fwRetries, fwDelay, fwLog, fwTimer>>
  /\ UNCHANGED <<postVars, loadVars, issueVars, routeVars, mountVars>>
  /\ UNCHANGED <<uiVars, heatVars>>

FetchWithRetry ==
  \/ FwCall
  \/ FwFetch
  \/ FwTimer

(* ------------- NYCMap: selection modes and the click handler ----------- *)

\* The points a user clicks or a drawer geocodes.
PickPoints == {<<1, 1>>, <<1, 2>>}

\* The most zero-delay timers armed at a time.
MaxPending == 2

\* <ClickHandler selecting={selecting || selectingForPath !== "none"} ...>
SelectingProp(sel, forPath) == sel \/ forPath # "none"

\* onSelectingChange={selectingForPath === "none" ? setSelecting : undefined}
OnSelectingChangeDefined(forPath) == forPath = "none"

\* The render that follows a state change, with ClickHandler's effect:
\* isPathSelection.current = selecting && onSelectingChange === undefined;
\* selectingRef.current = selecting.
ClickHandlerEffect ==
  /\ selectingRef' = SelectingProp(selecting', selectingForPath')
  /\ isPathSelection' =
       (SelectingProp(selecting', selectingForPath')
          /\ ~OnSelectingChangeDefined(selectingForPath'))

ClickGhosts == <<clickSeq, onPickCalled, onSelectingChangeCalled>>

NotUi == <<postVars, loadVars, issueVars, routeVars, mountVars, retryVars, heatVars>>

DrawerState == <<drawerOrigin, drawerDestination, addrPending, calcLoading, calcArgs>>

\* PathFinderDrawer's effect on [clickedCoords, selectMode], in the render
\* after a click at pt: a forwarded path pick hands it new clickedCoords
\* while selectMode is not "none", and it awaits fetchAddress(lat, lng).
PathFinderEffect(forwarded, pt) ==
  /\ addrPending' =
       IF forwarded /\ selectingForPath # "none"
       THEN addrPending \cup {[mode |-> selectingForPath, at |-> pt]}
       ELSE addrPending
  /\ UNCHANGED <<drawerOrigin, drawerDestination, calcLoading, calcArgs>>

\* Nav menu: "New Report"
handleOpenNewReport ==
  /\ ~drawerOpen
  /\ drawerOpen' = TRUE
  /\ UNCHANGED <<selecting, selectingForPath, pathFinderOpen, pathOrigin,
                 pathDestination, reportCoords, pathClickCoords, mapView,
                 pendingTimers, ClickGhosts, DrawerState>>
  /\ ClickHandlerEffect
  /\ UNCHANGED NotUi

\* Nav menu: "Find a Path"
handleOpenPathFinder ==
  /\ ~pathFinderOpen
  /\ pathFinderOpen' = TRUE
  /\ UNCHANGED <<selecting, selectingForPath, drawerOpen, pathOrigin,
                 pathDestination, reportCoords, pathClickCoords, mapView,
                 pendingTimers, ClickGhosts, DrawerState>>
  /\ ClickHandlerEffect
  /\ UNCHANGED NotUi

\* A drawer's close button: onOpenChange(false)
CloseDrawer ==
  /\ \E report \in BOOLEAN :
       IF report
       THEN /\ drawerOpen
            /\ drawerOpen' = FALSE
            /\ UNCHANGED pathFinderOpen
       ELSE /\ pathFinderOpen
            /\ pathFinderOpen' = FALSE
            /\ UNCHANGED drawerOpen
  /\ UNCHANGED <<selecting, selectingForPath, pathOrigin, pathDestination,
                 reportCoords, pathClickCoords, mapView, pendingTimers,
                 ClickGhosts, DrawerState>>
  /\ ClickHandlerEffect
  /\ UNCHANGED NotUi

\* ReportDrawer's "Select on map": onRequestSelect(), then setOpen(false).
onRequestSelect ==
  /\ drawerOpen
  /\ selecting' = TRUE
  /\ reportCoords' = Null
  /\ drawerOpen' = FALSE
  /\ UNCHANGED <<selectingForPath, pathFinderOpen, pathOrigin, pathDestination,
                 pathClickCoords, mapView, pendingTimers, ClickGhosts, DrawerState>>
  /\ ClickHandlerEffect
  /\ UNCHANGED NotUi

\* PathFinderDrawer's "Select origin on map" / "Select destination on map".
onRequestSelectEndpoint ==
  /\ pathFinderOpen
  /\ \E which \in {"origin", "destination"} : selectingForPath' = which
  /\ pathClickCoords' = Null
  /\ UNCHANGED <<selecting, drawerOpen, pathFinderOpen, pathOrigin,
                 pathDestination, reportCoords, mapView, pendingTimers,
                 ClickGhosts, DrawerState>>
  /\ ClickHandlerEffect
  /\ UNCHANGED NotUi

\* ReportDrawer geocodes an address or uses the device's location.
onDropMarker ==
  /\ drawerOpen
  /\ \E pt \in PickPoints :
       /\ reportCoords' = pt
       /\ mapView' = pt
  /\ UNCHANGED <<selecting, selectingForPath, drawerOpen, pathFinderOpen,
                 pathOrigin, pathDestination, pathClickCoords, pendingTimers,
                 ClickGhosts, DrawerState>>
  /\ ClickHandlerEffect
  /\ UNCHANGED NotUi

\* A handlePick whose path branch also drops the report pin.
handlePickShared(pt) ==
  /\ IF selectingForPath # "none"
     THEN /\ IF selectingForPath = "origin"
             THEN pathOrigin' = pt /\ UNCHANGED pathDestination
             ELSE pathDestination' = pt /\ UNCHANGED pathOrigin
          /\ pathClickCoords' = pt
          /\ pathFinderOpen' = TRUE
          /\ pendingTimers' = pendingTimers + 1
          /\ reportCoords' = pt
          /\ UNCHANGED <<selecting, drawerOpen>>
     ELSE IF selecting
     THEN /\ reportCoords' = pt
          /\ selecting' = FALSE
          /\ drawerOpen' = TRUE
          /\ UNCHANGED <<pathOrigin, pathDestination, pathClickCoords,
                         pathFinderOpen, pendingTimers>>
     ELSE UNCHANGED <<pathOrigin, pathDestination, pathClickCoords,
                      pathFinderOpen, pendingTimers, reportCoords, selecting,
                      drawerOpen>>
  /\ mapView' = pt

\* handlePick(lat, lng), as the render's closure sees the two modes.
handlePick(pt) ==
  /\ IF selectingForPath # "none"
     THEN /\ IF selectingForPath = "origin"
             THEN pathOrigin' = pt /\ UNCHANGED pathDestination
             ELSE pathDestination' = pt /\ UNCHANGED pathOrigin
          /\ pathClickCoords' = pt
          /\ pathFinderOpen' = TRUE
          /\ pendingTimers' = pendingTimers + 1
          /\ UNCHANGED <<reportCoords, selecting, drawerOpen>>
     ELSE IF selecting
     THEN /\ reportCoords' = pt
          /\ selecting' = FALSE
          /\ drawerOpen' = TRUE
          /\ UNCHANGED <<pathOrigin, pathDestination, pathClickCoords,
                         pathFinderOpen, pendingTimers>>
     ELSE UNCHANGED <<pathOrigin, pathDestination, pathClickCoords,
                      pathFinderOpen, pendingTimers, reportCoords, selecting,
                      drawerOpen>>
  /\ mapView' = pt

\* A click handler without `if (!selectingRef.current) return`.
handleClickUnguarded(pt) ==
  /\ pendingTimers < MaxPending
  /\ clickSeq' = 1 - clickSeq
  /\ handlePick(pt)
  /\ onPickCalled' = TRUE
  /\ onSelectingChangeCalled' =
       (~isPathSelection /\ OnSelectingChangeDefined(selectingForPath))
  /\ UNCHANGED selectingForPath
  /\ ClickHandlerEffect
  /\ PathFinderEffect(TRUE, pt)
  /\ UNCHANGED NotUi

\* ClickHandler's handleClick for a click at pt: nothing unless
\* selectingRef.current; else onPick, and onSelectingChange?.(false) unless
\* isPathSelection.current (setSelecting(false) repeats what handlePick's
\* report branch set, and path mode passes no onSelectingChange).
handleClick(pt) ==
  /\ pendingTimers < MaxPending
  /\ clickSeq' = 1 - clickSeq
  /\ IF ~selectingRef
     THEN /\ onPickCalled' = FALSE
          /\ onSelectingChangeCalled' = FALSE
          /\ UNCHANGED <<selecting, drawerOpen, pathFinderOpen, pathOrigin,
                         pathDestination, reportCoords, pathClickCoords,
                         mapView, pendingTimers>>
     ELSE /\ handlePick(pt)
          /\ onPickCalled' = TRUE
          /\ onSelectingChangeCalled' =
               (~isPathSelection /\ OnSelectingChangeDefined(selectingForPath))
  /\ UNCHANGED selectingForPath
  /\ ClickHandlerEffect
  /\ PathFinderEffect(selectingRef, pt)
  /\ UNCHANGED NotUi

\* The user clicks the map.
MapClick == \E pt \in PickPoints : handleClick(pt)

\* A timer armed by a path pick fires: setSelectingForPath("none")
PickTimer ==
  /\ pendingTimers > 0
  /\ pendingTimers' = pendingTimers - 1
  /\ selectingForPath' = "none"
  /\ UNCHANGED <<selecting, drawerOpen, pathFinderOpen, pathOrigin,
                 pathDestination, reportCoords, pathClickCoords, mapView,
                 ClickGhosts, DrawerState>>
  /\ ClickHandlerEffect
  /\ UNCHANGED NotUi

(* ------------------ PathFinderDrawer: its own endpoints ---------------- *)

\* What a coordinate input holds after an edit: nothing, or a number.
InputValues == {"", NumStr(2)}

\* The other coordinate of an edit made while the endpoint is null:
\* `prev?.lng ?? 0`.
OrZero(prev, k) == IF prev = Null THEN 0 ELSE prev[k]

\* The awaited fetchAddress of a pick settles: setOrigin or setDestination
\* with the pick's coordinates, by the selectMode of the effect's render,
\* and setOpen(true).
AddressSettle ==
  /\ \E f \in addrPending :
       /\ addrPending' = addrPending \ {f}
       /\ IF f.mode = "origin"
          THEN drawerOrigin' = f.at /\ UNCHANGED drawerDestination
          ELSE drawerDestination' = f.at /\ UNCHANGED drawerOrigin
  /\ pathFinderOpen' = TRUE
  /\ UNCHANGED <<calcLoading, calcArgs>>
  /\ UNCHANGED <<selecting, selectingForPath, drawerOpen, pathOrigin,
                 pathDestination, reportCoords, pathClickCoords, mapView,
                 pendingTimers, ClickGhosts>>
  /\ ClickHandlerEffect
  /\ UNCHANGED NotUi

\* The user edits one of the four coordinate inputs (the origin's or the
\* destination's, latitude or longitude): the endpoint's other coordinate
\* is kept, or is 0 when the endpoint was null.
EditInput(isOrigin, isLat) ==
  /\ pathFinderOpen
  /\ \E v \in InputValues :
       LET prev == IF isOrigin THEN drawerOrigin ELSE drawerDestination
           next == IF isLat
                   THEN <<parseFloat(v), OrZero(prev, 2)>>
                   ELSE <<OrZero(prev, 1), parseFloat(v)>>
       IN IF isOrigin
          THEN drawerOrigin' = next /\ UNCHANGED drawerDestination
          ELSE drawerDestination' = next /\ UNCHANGED drawerOrigin
  /\ UNCHANGED <<addrPending, calcLoading, calcArgs>>
  /\ UNCHANGED <<selecting, selectingForPath, drawerOpen, pathFinderOpen,
                 pathOrigin, pathDestination, reportCoords, pathClickCoords,
                 mapView, pendingTimers, ClickGhosts>>
  /\ ClickHandlerEffect
  /\ UNCHANGED NotUi

\* "Calculate Path", enabled with both endpoints set and not loading:
\* onPathCalculated([origin.lat, origin.lng], [destination.lat,
\* destination.lng]) and the 500 ms timer.
handleCalculatePath ==
  /\ pathFinderOpen
  /\ drawerOrigin # Null /\ drawerDestination # Null
  /\ ~calcLoading
  /\ calcLoading' = TRUE
  /\ calcArgs' = <<drawerOrigin, drawerDestination>>
  /\ UNCHANGED <<drawerOrigin, drawerDestination, addrPending>>
  /\ UNCHANGED <<selecting, selectingForPath, drawerOpen, pathFinderOpen,
                 pathOrigin, pathDestination, reportCoords, pathClickCoords,
                 mapView, pendingTimers, ClickGhosts>>
  /\ ClickHandlerEffect
  /\ UNCHANGED NotUi

\* The 500 ms timer fires: setLoading(false), setOpen(false).
CalculateTimer ==
  /\ calcLoading
  /\ calcLoading' = FALSE
  /\ pathFinderOpen' = FALSE
  /\ UNCHANGED <<drawerOrigin, drawerDestination, addrPending, calcArgs>>
  /\ UNCHANGED <<selecting, selectingForPath, drawerOpen, pathOrigin,
                 pathDestination, reportCoords, pathClickCoords, mapView,
                 pendingTimers, ClickGhosts>>
  /\ ClickHandlerEffect
  /\ UNCHANGED NotUi

(* --------------------------- specifications ---------------------------- *)

\* One submission, any form a client can post.
Next == Post(1, Forms)

Spec == Init /\ [][Next]_vars

\* The one coordinate two submissions share.
SameCoordForms == {[file |-> TRUE, lat |-> NumStr(BoxMin), lng |-> NumStr(BoxMin)]}

\* Two submissions for the same coordinate, and the map loading reports.
NextPair ==
  \/ \E p \in Procs : Post(p, SameCoordForms)
  \/ LoadReports

SpecPair == Init /\ [][NextPair]_vars

\* Submissions from the report drawer, issues closed and recomputed.
NextLifecycle ==
  \/ Post(1, DrawerForms)
  \/ Post(2, SameCoordForms)
  \/ \E id \in Procs : Lifecycle(id)

SpecLifecycle == Init /\ [][NextLifecycle]_vars

\* A submission from the report drawer and a route request.
NextRoute ==
  \/ Post(1, DrawerForms)
  \/ \E r \in SoloReqs : RouteRequest(r)

SpecRoute == Init /\ [][NextRoute]_vars

\* Route requests of both map components, each fetch settling and each
\* timer firing eventually.
NextFetch ==
  \/ \E r \in SoloReqs : RouteRequest(r)
  \/ FetchRoute

SpecFetch == Init /\ [][NextFetch]_vars

FairSpecFetch ==
  /\ SpecFetch
  /\ \A r \in SoloReqs : WF_vars(FetchAttempt(r) \/ RetryTimer(r) \/ SetRoute(r))
  /\ WF_vars(FetchRouteSettle)

\* Two route requests issued one after another: the second Calculate is
\* pressed at any time after the first, whether or not the first has ended.
PairPoints == {<<1, 2>>, <<2, 1>>}

NextRoutePair ==
  \/ RequestRouteBetween(1, PairPoints)
  \/ (rpc[1] # "idle" /\ RequestRouteBetween(2, PairPoints))
  \/ \E r \in Reqs : FetchAttempt(r) \/ RetryTimer(r) \/ SetRoute(r)

SpecRoutePair == Init /\ [][NextRoutePair]_vars

\* fetchWithRetry called with any `retries` and `delay`.
NextRetry == FetchWithRetry

SpecRetry == Init /\ [][NextRetry]_vars

\* The map's menus, drawers and clicks.
NextUi ==
  \/ handleOpenNewReport
  \/ handleOpenPathFinder
  \/ CloseDrawer
  \/ onRequestSelect
  \/ onRequestSelectEndpoint
  \/ onDropMarker
  \/ MapClick
  \/ PickTimer

SpecUi == Init /\ [][NextUi]_vars

\* The forms of the submissions the heatmap draws: one with coordinates,
\* one without its latitude.
HeatForms ==
  {[file |-> TRUE, lat |-> NumStr(1), lng |-> NumStr(2)],
   [file |-> TRUE, lat |-> "null", lng |-> NumStr(1)]}

\* Heatmap mode changes and data arrivals, over the reports submitted.
NextHeat ==
  \/ Post(1, HeatForms)
  \/ LoadReports
  \/ Heatmap

SpecHeat == Init /\ [][NextHeat]_vars

\* The point picked in the runs of the path finder.
DrawerPick == <<1, 1>>

\* The path finder: picks on the map for both endpoints, edits of the
\* origin's inputs, Calculate.
NextDrawer ==
  \/ handleOpenPathFinder
  \/ onRequestSelectEndpoint
  \/ handleClick(DrawerPick)
  \/ PickTimer
  \/ AddressSettle
  \/ \E isLat \in BOOLEAN : EditInput(TRUE, isLat)
  \/ handleCalculatePath
  \/ CalculateTimer

SpecDrawer == Init /\ [][NextDrawer]_vars

(* ------------------------------ properties ----------------------------- *)

AnalysisFailed(p) == analyzeRes[p] \in {"rejected", "not_ok"}

HasRow(table, p) == \E row \in table : row.id = p

\* C1: when the analysis collaborator is absent or fails, the submission
\* still succeeds: the record is inserted with the fallback severity and
\* the response is no error.
C1_AnalysisFailureStillSucceeds ==
  \A p \in Procs :
    (pc[p] = "done" /\ AnalysisFailed(p)) =>
      /\ resp[p].success
      /\ \E row \in reportsTable : row.id = p /\ row.severity = "unknown"

\* The provider failed for request r: every attempt failed, or the body
\* was malformed, so fetchOSRMRoute ended in its catch.
ProviderFailed(r) == outcome[r] = "fallback"

\* C2: when the routing provider fails for a request, the displayed route
\* is never set to the two-point line [origin, destination].
C2_NoFabricatedStraightLine ==
  \A r \in Reqs :
    (rpc[r] = "done" /\ ProviderFailed(r)) =>
      route # <<routeStart[r], routeEnd[r]>>

\* C3: a failed routing request never ends as a silent empty route list.
C3_NoSilentEmptyRoute ==
  ~(frPc = "done" /\ frOutcome = "failed" /\ nycRoute = <<>>)

\* C4: every stored report record and every blocked edge has a coordinate
\* inside the service bounding box.
C4_StoredCoordinatesInBox ==
  /\ \A row \in reportsTable : InServiceBox(row.lat, row.lng)
  /\ \A e \in blocked_edges_set : InServiceBox(e.lat, e.lng)

\* The rank of a risk level; 0 for a value that is no level.
LevelRank(sev) ==
  IF \E k \in 1..Len(Levels) : Levels[k] = sev
  THEN CHOOSE k \in 1..Len(Levels) : Levels[k] = sev
  ELSE 0

\* The blocking threshold's default level.
BlockingLevel == "high"

\* C5: a submission adds a blocked edge only when its assessed risk level
\* is at or above the blocking threshold.
C5_HazardOnlyAtThreshold ==
  \A e \in blocked_edges_set :
    LevelRank(modelData[e.by].severity) >= LevelRank(BlockingLevel)

PassesHazard(path, edges) ==
  \E e \in edges, k \in 1..Len(path) : path[k] = <<e.lat, e.lng>>

\* The road network offers a path between the two points that passes no
\* blocked edge.
AlternateExists(a, b, edges) ==
  \E path \in Paths(a, b) : ~PassesHazard(path, edges)

\* C7: a route returned for a request never passes a blocked edge held when
\* the route was computed, whenever an alternate path exists.
C7_RouteAvoidsHazards ==
  [][\A r \in Reqs :
       (/\ rpc[r] = "fetch" /\ rpc'[r] = "resolved"
        /\ AlternateExists(routeStart[r], routeEnd[r], blocked_edges_set))
         => ~PassesHazard(newRoute'[r], blocked_edges_set)]_vars

\* C8: a hazard is never added before its report record has been stored.
C8_HazardAfterRecord ==
  \A e \in blocked_edges_set : HasRow(reportsTable, e.by)

\* C9: once an issue whose report produced a hazard is closed and
\* recomputed, its score is 0 and no hazard of it remains.
C9_ClosedIssueHasNoHazard ==
  \A id \in Procs :
    (issueStatus[id] = "closed" /\ id \in recomputed) =>
      /\ score[id] = 0
      /\ \A e \in blocked_edges_set : e.by # id

\* An issue whose report delivered a blocked edge has been closed and
\* recomputed, while the other submission's edge at the same coordinate
\* was delivered too.
C9_Witness ==
  /\ issueStatus[2] = "closed" /\ 2 \in recomputed
  /\ edgeRes[2] = "delivered" /\ edgeRes[1] = "delivered"
  /\ lat[1] = lat[2] /\ lng[1] = lng[2]
  /\ score[2] = 0

C13_Answer(p) ==
  /\ pc'[p] # "done" => resp'[p] = NoResp
  /\ pc[p] # "done" /\ pc'[p] = "done" =>
       /\ resp'[p].success <=>
            /\ pc[p] = "insert"
            /\ analyzeRes[p] = "ok"
            /\ ~HasRow(reportsTable, p)
            /\ HasRow(reportsTable', p)
       /\ resp'[p].success => resp'[p].status = 200 /\ resp'[p].error = ""
       /\ ~resp'[p].success => resp'[p].error # ""
       /\ resp'[p].status = 400 <=> pc[p] = "idle"
       /\ resp'[p].status = 500 <=>
            /\ pc[p] \in {"upload", "analyze", "insert"}
            /\ ~HasRow(reportsTable', p)

C15_EdgeIffRecord ==
  \A p \in Procs :
    (pc[p] = "done" /\ analyzeRes[p] = "ok" /\ modelData[p].pothole) =>
      ((\E e \in blocked_edges_set : e.by = p) <=> HasRow(reportsTable, p))

\* What a route request keeps for itself.
RequestLocals(r) ==
  <<rpc[r], routeStart[r], routeEnd[r], retryI[r], attempts[r], outcome[r],
    newRoute[r]>>

\* C12: each route request is a stateless computation of its own: its result
\* is a route from its own origin to its own destination, it stays what it
\* was once computed, and no step of another request, earlier or running at
\* the same time, changes anything the request keeps for itself.
C12_RequestsIndependent ==
  /\ [](\A r \in Reqs :
         rpc[r] \in {"resolved", "done"} =>
           newRoute[r] \in Paths(routeStart[r], routeEnd[r]))
  /\ [][\A r \in Reqs :
         /\ rpc[r] \in {"resolved", "done"} => newRoute'[r] = newRoute[r]
         /\ \A o \in Reqs \ {r} :
              RequestLocals(o)' # RequestLocals(o) =>
                RequestLocals(r)' = RequestLocals(r)]_vars

\* Two requests between different points, the first ending after the
\* second did, each hold the provider's route between their own points.
C12_Witness ==
  /\ rpc[1] = "done" /\ rpc[2] = "done"
  /\ outcome[1] = "ok" /\ outcome[2] = "ok"
  /\ routeStart[1] # routeStart[2] /\ routeEnd[1] # routeEnd[2]
  /\ routeStart[1][1] # routeStart[1][2]
  /\ Len(newRoute[1]) = 3 /\ attempts[1] > 1
  /\ newRoute[1] # newRoute[2]
  /\ route = newRoute[1]

\* C14: once all the route requests issued one after another have completed,
\* the displayed route is the result of the most recently issued one.
C14_LatestRequestWins ==
  (\A r \in Reqs : rpc[r] = "done") => route = newRoute[2]

\* C16: fetchWithRetry returns the first OK response and makes no attempt
\* after it; when every attempt fails it makes exactly `retries` attempts
\* and then throws the error of the last attempt; 'Max retries reached' is
\* thrown only when retries <= 0.
C16_RetryContract ==
  /\ [](fwPc = "returned" =>
         /\ fwLog # <<>>
         /\ Ok(fwLog[Len(fwLog)])
         /\ \A k \in 1..(Len(fwLog) - 1) : ~Ok(fwLog[k])
         /\ fwResult = OkResponse(Len(fwLog) - 1))
  /\ [](fwPc = "thrown" /\ fwLog # <<>> =>
         /\ Len(fwLog) = fwRetries
         /\ \A k \in 1..Len(fwLog) : ~Ok(fwLog[k])
         /\ fwResult = AttemptError(fwLog[Len(fwLog)], fwRetries - 1))
  /\ [](fwResult = MaxRetriesReached => fwRetries <= 0 /\ fwLog = <<>>)
  /\ [](fwPc = "thrown" /\ fwLog = <<>> => fwRetries <= 0)
  /\ [][(fwPc \in {"returned", "thrown"}) => (fwLog' = fwLog)]_vars

\* A call with three attempts allowed threw the third attempt's error after
\* waiting twice the delay.
C16_Witness ==
  /\ fwPc = "thrown"
  /\ fwRetries = 3
  /\ Len(fwLog) = 3
  /\ fwTimer = 2 * DefaultDelay
  /\ fwResult = AttemptError("rejected", 2)

\* The path state and the report state of NYCMap.
PathState ==
  <<pathOrigin, pathDestination, pathClickCoords, pathFinderOpen,
    selectingForPath, pendingTimers>>

ReportState == <<reportCoords, selecting, drawerOpen>>

\* A map click that was forwarded to onPick.
Picked == clickSeq' # clickSeq /\ onPickCalled'

C18_ModesExclusive == ~(selecting /\ selectingForPath # "none")

\* C19: a map click is forwarded to onPick only while a selection mode is
\* active; a click while not selecting changes nothing; in path-selection
\* mode the click handler does not call onSelectingChange.
C19_ClickGate ==
  [][(clickSeq' # clickSeq) =>
       /\ onPickCalled' <=> SelectingProp(selecting, selectingForPath)
       /\ ~SelectingProp(selecting, selectingForPath) =>
            /\ ~onSelectingChangeCalled'
            /\ PathState' = PathState
            /\ ReportState' = ReportState
            /\ mapView' = mapView
       /\ selectingForPath # "none" => ~onSelectingChangeCalled'
    ]_vars

\* After a path pick was forwarded and its timer ended the mode, a further
\* click was ignored.
C19_Witness ==
  /\ pathOrigin # Null
  /\ pendingTimers = 0
  /\ ~SelectingProp(selecting, selectingForPath)
  /\ clickSeq = 0
  /\ ~onPickCalled
  /\ mapView = pathOrigin

\* A record that has both its coordinates.
HasCoordinate(x) == x.latitude # NaN /\ x.longitude # NaN

\* The points of the records of a batch that have their coordinates.
ValidPoints(is, us) ==
  {<<x.latitude, x.longitude>> : x \in {y \in is : HasCoordinate(y)}}
    \cup {<<x.latitude, x.longitude>> : x \in {y \in us : HasCoordinate(y)}}

\* C11: a heatmap or neighborhood layer built from a batch with an invalid
\* record (an issue or report without a coordinate, a neighborhood feature
\* with a malformed geometry) skips that record and renders all the others:
\* the heat layer on the map holds the points of exactly the records with
\* coordinates, and in neighborhoods mode with features loaded the
\* neighborhood layer holds a polygon for exactly the well-formed features.
C11_InvalidRecordSkipped ==
  /\ heatLayer # {} => heatLayer = ValidPoints(issues, userReports)
  /\ (effectMap /\ heatmapMode = "individual" /\ issues # {} /\ userReports # {}) =>
       heatLayer = ValidPoints(issues, userReports)
  /\ (effectMap /\ heatmapMode = "neighborhoods" /\ neighborhoods # {}) =>
       neighborhoodLayer = {f.name : f \in {g \in neighborhoods : g.geometryOk}}

\* C20: the layers on the map match the mode the mode effect last ran for:
\* in "off" neither layer is on the map, in "individual" no neighborhood
\* layer is, in "neighborhoods" no heat layer is; the two layers are never
\* on the map together, whatever the order of mode changes and arrivals.
C20_LayersMatchMode ==
  /\ heatmapMode = "off" => heatLayer = {} /\ neighborhoodLayer = {}
  /\ heatmapMode = "individual" => neighborhoodLayer = {}
  /\ heatmapMode = "neighborhoods" => heatLayer = {}
  /\ ~(heatLayer # {} /\ neighborhoodLayer # {})

\* Issues and reports are loaded, and the map is in neighborhoods mode with
\* its neighborhood layer and no heat layer.
C20_Witness ==
  /\ heatmapMode = "neighborhoods"
  /\ issues # {} /\ userReports # {}
  /\ ValidPoints(issues, userReports) # {}
  /\ neighborhoodLayer # {}
  /\ heatLayer = {}

\* C21: whenever a path is calculated, the origin and destination passed
\* to onPathCalculated equal the markers pathOrigin and pathDestination on
\* the map, after any sequence of map picks and edits of the inputs.
C21_CalculatedFromMarkers ==
  [][(~calcLoading /\ calcLoading') =>
       calcArgs' = <<pathOrigin, pathDestination>>]_vars

====
